---- MODULE Spec2Model ----
(***************************************************************************)
(* Model of the RICH alignment demo: the Point of alignment.py, the Ring   *)
(* and Noisy_Ring of rich_ring.py.                                         *)
(*                                                                         *)
(* Numbers.  Lengths are fixed-point integers, Unit to the unit radius.    *)
(* Angles are integers, Turn to 2*pi; the angular unit is one eighth of    *)
(* the step of numpy's default 50-point linspace(0, 2*pi) grid, so every   *)
(* grid angle, pi, and the bearings of the axes and diagonals are exact.   *)
(* One live object is modelled at a time; constructing replaces it.        *)
(***************************************************************************)
EXTENDS Integers, Sequences, FiniteSets, TLC

VARIABLES cls,        \* class of the live object: "Point", "Ring", "Noisy_Ring"
          _x, _y,     \* Cartesian offset
          _alpha,     \* bearing (Point._phi, Ring._alpha)
          _d,         \* distance of the offset from the origin
          _noise,     \* Noisy_Ring cache: noise level, or None
          _x_error,   \* Noisy_Ring cache: x perturbations, or None
          _y_error,   \* Noisy_Ring cache: y perturbations, or None
          ret,        \* the most recent call: operation, arguments, outcome
          drew,       \* the most recent call completed a draw of perturbations
          lastXY,     \* arguments of the most recent __init__ / move
          stable      \* centre-relative geometry of the last successful noisy
                      \* boundary, kept while the cache is not re-drawn

vars == <<cls, _x, _y, _alpha, _d, _noise, _x_error, _y_error, ret, drew,
          lastXY, stable>>

---------------------------------------------------------------------------
(* Bounds of the model *)

\* perturbation realizations the random generator can produce
NumSeeds == 2
\* sample counts n range over -1 .. MaxN, and the grid size
MaxN == 2
\* noise levels are the multiples 0 .. MaxLevel of the default level
MaxLevel == 1

---------------------------------------------------------------------------
(* Numbers *)

\* the unit radius (the 1 of c = d*d - 1) in fixed point
Unit == 1000
\* num of np.linspace(0, 2 * np.pi) when it is not passed: numpy's default
NumSamples == 50
\* default noise level 0.05 of Noisy_Ring.boundary / misalignment / _set_error
DefaultNoise == 50

Turn == 8 * (NumSamples - 1)
Pi == Turn \div 2

Abs(v) == IF v < 0 THEN -v ELSE v

\* cos over the first quarter turn, angle 0 .. Turn/4, scaled by Unit
CosTable ==
  << 1000, 1000, 999, 999, 998, 997, 995, 994, 992, 990, 987, 984, 982, 978,
     975, 971, 967, 963, 959, 954, 949, 944, 938, 933, 927, 921, 914, 908,
     901, 894, 887, 879, 871, 863, 855, 847, 838, 829, 820, 811, 801, 792,
     782, 772, 761, 751, 740, 729, 718, 707, 696, 684, 672, 660, 648, 636,
     623, 611, 598, 585, 572, 559, 546, 532, 518, 505, 491, 477, 463, 448,
     434, 419, 405, 390, 375, 360, 345, 330, 315, 300, 285, 269, 254, 238,
     223, 207, 191, 175, 160, 144, 128, 112, 96, 80, 64, 48, 32, 16, 0 >>

\* np.cos
Cos(a) ==
  LET m == a % Turn
      q == Turn \div 4
  IN  IF m <= q THEN CosTable[m + 1]
      ELSE IF m <= 2 * q THEN -CosTable[2 * q - m + 1]
      ELSE IF m <= 3 * q THEN -CosTable[m - 2 * q + 1]
      ELSE CosTable[4 * q - m + 1]

\* np.sin
Sin(a) == Cos(a - Turn \div 4)

RECURSIVE SqrtSearch(_, _, _)
SqrtSearch(v, lo, hi) ==
  IF lo >= hi THEN lo
  ELSE LET mid == (lo + hi + 1) \div 2
       IN  IF mid * mid <= v THEN SqrtSearch(v, mid, hi)
           ELSE SqrtSearch(v, lo, mid - 1)

\* math.sqrt / np.sqrt of a non-negative number, rounded down
Sqrt(v) == SqrtSearch(v, 0, 4 * Unit)

\* bearing of (p, q) with p >= q >= 0 and p > 0: the nearest grid angle
Octant(q, p) ==
  CHOOSE a \in 0 .. (Turn \div 8) :
    \A b \in 0 .. (Turn \div 8) :
      \/ Abs(q * Cos(a) - p * Sin(a)) < Abs(q * Cos(b) - p * Sin(b))
      \/ /\ Abs(q * Cos(a) - p * Sin(a)) = Abs(q * Cos(b) - p * Sin(b))
         /\ a <= b

\* np.arctan2(y, x), in (-Pi, Pi]; arctan2(0, 0) is 0
Arctan2(y, x) ==
  LET ax == Abs(x)
      ay == Abs(y)
      base == IF ax = 0 /\ ay = 0 THEN 0
              ELSE IF ay <= ax THEN Octant(ay, ax)
              ELSE Turn \div 4 - Octant(ax, ay)
  IN  IF x >= 0 /\ y >= 0 THEN base
      ELSE IF x < 0 /\ y >= 0 THEN Pi - base
      ELSE IF x < 0 THEN base - Pi
      ELSE -base

---------------------------------------------------------------------------
(* Values *)

None == [set |-> FALSE, v |-> <<>>]
Some(v) == [set |-> TRUE, v |-> <<v>>]
Get(o) == o.v[1]

Classes == {"Point", "Ring", "Noisy_Ring"}

\* offsets the callers pass: the origin, points inside the unit circle, on it
\* and outside it
Offsets ==
  { <<0, 0>>, <<Unit \div 2, 0>>, <<-3 * (Unit \div 10), 4 * (Unit \div 10)>>,
    <<Unit, 0>>, <<6 * (Unit \div 10), -8 * (Unit \div 10)>>, <<Unit, Unit>> }

\* viewing angles passed to _r
Thetas == {0, Turn \div 8, Pi, 3 * (Turn \div 4)}

\* sample counts passed as n
Counts == (-1 .. MaxN) \cup {NumSamples}

\* noise levels passed as noise
Levels == {k * DefaultNoise : k \in 0 .. MaxLevel}

NoArgs == [n |-> 0, noise |-> 0, force |-> FALSE, theta |-> 0]

Ok(op, args, a, b) ==
  [op |-> op, args |-> args, status |-> "ok", a |-> a, b |-> b]
Raised(op, args, error) ==
  [op |-> op, args |-> args, status |-> error, a |-> <<>>, b |-> <<>>]

NoStable ==
  [valid |-> FALSE, n |-> 0, noise |-> 0, moved |-> FALSE, a |-> <<>>, b |-> <<>>]

---------------------------------------------------------------------------
(* Point / Ring: construction, relocation, coordinates *)

\* np.arctan2(y, x) and sqrt(x ** 2 + y ** 2) of every offset, evaluated once
Polar ==
  [p \in Offsets |->
     [alpha |-> Arctan2(p[2], p[1]), d |-> Sqrt(p[1] * p[1] + p[2] * p[2])]]

\* the four assignments of __init__
SetOffset(x, y) ==
  /\ _x' = x
  /\ _y' = y
  /\ _alpha' = Polar[<<x, y>>].alpha
  /\ _d' = Polar[<<x, y>>].d

\* a new object: the noise cache starts at the class attributes, None
Construct(c, x, y) ==
  /\ cls' = c
  /\ SetOffset(x, y)
  /\ _noise' = None
  /\ _x_error' = None
  /\ _y_error' = None
  /\ ret' = Ok("__init__", NoArgs, <<>>, <<>>)
  /\ drew' = FALSE
  /\ lastXY' = <<x, y>>
  /\ stable' = NoStable

\* a move that stores the new offset and leaves the polar form stale
MoveStale(x, y) ==
  /\ _x' = x
  /\ _y' = y
  /\ ret' = Ok("move", NoArgs, <<>>, <<>>)
  /\ drew' = FALSE
  /\ lastXY' = <<x, y>>
  /\ stable' = [stable EXCEPT !.moved = stable.valid]
  /\ UNCHANGED <<cls, _alpha, _d, _noise, _x_error, _y_error>>

\* a move whose re-initialisation also resets the noise cache
MoveResetsCache(x, y) ==
  /\ SetOffset(x, y)
  /\ _noise' = None
  /\ _x_error' = None
  /\ _y_error' = None
  /\ ret' = Ok("move", NoArgs, <<>>, <<>>)
  /\ drew' = FALSE
  /\ lastXY' = <<x, y>>
  /\ stable' = [stable EXCEPT !.moved = stable.valid]
  /\ UNCHANGED cls

Move(x, y) ==
  /\ SetOffset(x, y)
  /\ ret' = Ok("move", NoArgs, <<>>, <<>>)
  /\ drew' = FALSE
  /\ lastXY' = <<x, y>>
  /\ stable' = [stable EXCEPT !.moved = stable.valid]
  /\ UNCHANGED <<cls, _noise, _x_error, _y_error>>

\* Point.coords, Ring.centre
Coords ==
  /\ ret' = Ok("coords", NoArgs, <<_x>>, <<_y>>)
  /\ drew' = FALSE
  /\ UNCHANGED <<cls, _x, _y, _alpha, _d, _noise, _x_error, _y_error,
                 lastXY, stable>>

---------------------------------------------------------------------------
(* Geometry: _r *)

\* a Point whose cosine argument lacks the half turn
ChiUnshifted(c, theta) ==
  IF c = "Point" THEN _alpha - theta ELSE theta - _alpha

\* the cosine argument: Point uses phi + pi - theta, Ring uses phi - alpha
Chi(c, theta) ==
  IF c = "Point" THEN _alpha + Pi - theta ELSE theta - _alpha

Bcoef(c, theta) == (-2 * _d * Cos(Chi(c, theta))) \div Unit
Ccoef == (_d * _d) \div Unit - Unit
Disc(c, theta) == Bcoef(c, theta) * Bcoef(c, theta) - 4 * Ccoef * Unit

\* a square root that also rejects zero
RFailsOnZero(c, theta) == Disc(c, theta) <= 0

\* math.sqrt raises ValueError (math domain error) on a negative argument
RFails(c, theta) == Disc(c, theta) < 0
RValue(c, theta) == (-Bcoef(c, theta) + Sqrt(Disc(c, theta))) \div 2

CallR(theta) ==
  /\ ret' = IF RFails(cls, theta)
            THEN Raised("_r", [NoArgs EXCEPT !.theta = theta], "ValueError")
            ELSE Ok("_r", [NoArgs EXCEPT !.theta = theta],
                    <<RValue(cls, theta)>>, <<>>)
  /\ drew' = FALSE
  /\ UNCHANGED <<cls, _x, _y, _alpha, _d, _noise, _x_error, _y_error,
                 lastXY, stable>>

---------------------------------------------------------------------------
(* Sampling: misalignment and boundary of Point and Ring *)

\* np.linspace(0, 2 * np.pi): n is not passed on, so num is numpy's default
\* and the endpoint 2*pi is included
Linspace == [k \in 1 .. NumSamples |-> ((k - 1) * Turn) \div (NumSamples - 1)]

\* a misalignment that passes n on as linspace's num
MisalignmentWithCount(n) ==
  /\ cls \in {"Point", "Ring"}
  /\ n >= 0
  /\ LET grid == [k \in 1 .. n |->
                    IF n = 1 THEN 0 ELSE ((k - 1) * Turn) \div (n - 1)]
     IN  ret' = IF \E k \in 1 .. n : RFails(cls, grid[k])
                THEN Raised("misalignment", [NoArgs EXCEPT !.n = n], "ValueError")
                ELSE Ok("misalignment", [NoArgs EXCEPT !.n = n],
                        [k \in 1 .. n |-> RValue(cls, grid[k])], grid)
  /\ drew' = FALSE
  /\ UNCHANGED <<cls, _x, _y, _alpha, _d, _noise, _x_error, _y_error,
                 lastXY, stable>>

\* Point.misalignment(n), Ring.misalignment(n): (distances, angles)
Misalignment(n) ==
  /\ cls \in {"Point", "Ring"}
  /\ ret' = IF \E k \in 1 .. NumSamples : RFails(cls, Linspace[k])
            THEN Raised("misalignment", [NoArgs EXCEPT !.n = n], "ValueError")
            ELSE Ok("misalignment", [NoArgs EXCEPT !.n = n],
                    [k \in 1 .. NumSamples |-> RValue(cls, Linspace[k])],
                    Linspace)
  /\ drew' = FALSE
  /\ UNCHANGED <<cls, _x, _y, _alpha, _d, _noise, _x_error, _y_error,
                 lastXY, stable>>

\* Ring.boundary(n): the exact ring edge, (xs, ys)
UnitRingX == [k \in 1 .. NumSamples |-> Cos(Linspace[k])]
UnitRingY == [k \in 1 .. NumSamples |-> Sin(Linspace[k])]
ExactX == [k \in 1 .. NumSamples |-> _x + UnitRingX[k]]
ExactY == [k \in 1 .. NumSamples |-> _y + UnitRingY[k]]

Boundary(n) ==
  /\ cls = "Ring"
  /\ ret' = Ok("boundary", [NoArgs EXCEPT !.n = n], ExactX, ExactY)
  /\ drew' = FALSE
  /\ UNCHANGED <<cls, _x, _y, _alpha, _d, _noise, _x_error, _y_error,
                 lastXY, stable>>

---------------------------------------------------------------------------
(* Noisy_Ring: the noise cache *)

Cache == [noise |-> _noise, xe |-> _x_error, ye |-> _y_error]

\* one realization of the generator, chosen by seed:
\* np.random.normal(scale=level, size=n)[i], in whole standard deviations
NoiseMag(seed, i, level) == level * (((seed * i + seed) % 5) - 2)
\* 2 * np.pi * np.random.uniform(size=n)[i]
NoiseAngle(seed, i) == (seed * 37 * i) % Turn

\* noise_mag * np.cos(noise_angle) and noise_mag * np.sin(noise_angle) for
\* every realization, level and size, evaluated once
Drawn ==
  [seed \in 1 .. NumSeeds, level \in Levels, n \in {m \in Counts : m >= 0} |->
     [xe |-> [i \in 1 .. n |->
                (NoiseMag(seed, i, level) * Cos(NoiseAngle(seed, i))) \div Unit],
      ye |-> [i \in 1 .. n |->
                (NoiseMag(seed, i, level) * Sin(NoiseAngle(seed, i))) \div Unit]]]

\* _set_error(n, level): the level is stored first; a negative size makes
\* np.random.normal raise before the perturbations are replaced
SetError(c, n, level, seed) ==
  IF n < 0
  THEN [raised |-> TRUE, drew |-> FALSE, cache |-> [c EXCEPT !.noise = Some(level)]]
  ELSE [raised |-> FALSE, drew |-> TRUE,
        cache |-> [noise |-> Some(level),
                   xe |-> Some(Drawn[seed, level, n].xe),
                   ye |-> Some(Drawn[seed, level, n].ye)]]

\* a cache check that forgets to compare the noise level
ShouldFindErrorsIgnoringLevel(c, force, n, noise_level) ==
  \/ force
  \/ ~c.xe.set
  \/ Len(Get(c.xe)) # n

ShouldFindErrors(c, force, n, noise_level) ==
  \/ force
  \/ ~c.xe.set
  \/ Len(Get(c.xe)) # n
  \/ c.noise # Some(noise_level)

\* exact + error on numpy arrays: equal lengths add elementwise, a length-1
\* array is broadcast, any other pair of lengths raises ValueError
Broadcasts(e) == Len(e) = NumSamples \/ Len(e) = 1
ArrayAdd(exact, e) ==
  [k \in 1 .. NumSamples |-> exact[k] + (IF Len(e) = 1 THEN e[1] ELSE e[k])]

\* Noisy_Ring.boundary(n, noise, new_errors) on cache c
NoisyBoundaryCall(c, n, noise, new_errors, seed) ==
  LET s == IF ShouldFindErrors(c, new_errors, n, noise)
           THEN SetError(c, n, noise, seed)
           ELSE [raised |-> FALSE, drew |-> FALSE, cache |-> c]
  IN  IF s.raised \/ ~Broadcasts(Get(s.cache.xe))
      THEN [status |-> "ValueError", a |-> <<>>, b |-> <<>>,
            drew |-> s.drew, cache |-> s.cache]
      ELSE [status |-> "ok",
            a |-> ArrayAdd(ExactX, Get(s.cache.xe)),
            b |-> ArrayAdd(ExactY, Get(s.cache.ye)),
            drew |-> s.drew, cache |-> s.cache]

\* what the caller of boundary keeps comparing: the geometry about the centre
Relative(out, n, noise) ==
  [valid |-> TRUE, n |-> n, noise |-> noise, moved |-> FALSE,
   a |-> [k \in 1 .. Len(out.a) |-> out.a[k] - _x],
   b |-> [k \in 1 .. Len(out.b) |-> out.b[k] - _y]]

NoisyBoundary(n, noise, new_errors) ==
  /\ cls = "Noisy_Ring"
  /\ \E seed \in 1 .. NumSeeds :
     \E out \in {NoisyBoundaryCall(Cache, n, noise, new_errors, seed)} :
       LET args == [NoArgs EXCEPT !.n = n, !.noise = noise, !.force = new_errors]
       IN  /\ ret' = [op |-> "boundary", args |-> args, status |-> out.status,
                      a |-> out.a, b |-> out.b]
           /\ drew' = out.drew
           /\ _noise' = out.cache.noise
           /\ _x_error' = out.cache.xe
           /\ _y_error' = out.cache.ye
           /\ stable' = IF out.status # "ok" THEN NoStable
                        ELSE IF /\ stable.valid
                                /\ ~out.drew
                                /\ stable.n = n
                                /\ stable.noise = noise
                        THEN stable
                        ELSE Relative(out, n, noise)
  /\ UNCHANGED <<cls, _x, _y, _alpha, _d, lastXY>>

\* Noisy_Ring.misalignment(n, noise): the last line reads boundary_x and
\* boundary_y, which are not defined, so a call that gets there raises NameError
NoisyMisalignment(n, noise) ==
  /\ cls = "Noisy_Ring"
  /\ \E seed \in 1 .. NumSeeds :
     \E first \in {IF ShouldFindErrors(Cache, FALSE, n, noise)
                   THEN SetError(Cache, n, noise, seed)
                   ELSE [raised |-> FALSE, drew |-> FALSE, cache |-> Cache]} :
     \E out \in {NoisyBoundaryCall(first.cache, n, noise, FALSE, seed)} :
       LET args == [NoArgs EXCEPT !.n = n, !.noise = noise]
       IN  IF first.raised
           THEN /\ ret' = Raised("misalignment", args, "ValueError")
                /\ drew' = FALSE
                /\ _noise' = first.cache.noise
                /\ _x_error' = first.cache.xe
                /\ _y_error' = first.cache.ye
           ELSE /\ ret' = Raised("misalignment", args,
                                 IF out.status = "ok" THEN "NameError"
                                 ELSE out.status)
                /\ drew' = (first.drew \/ out.drew)
                /\ _noise' = out.cache.noise
                /\ _x_error' = out.cache.xe
                /\ _y_error' = out.cache.ye
  /\ stable' = NoStable
  /\ UNCHANGED <<cls, _x, _y, _alpha, _d, lastXY>>

---------------------------------------------------------------------------

Init ==
  \E c \in Classes, p \in Offsets :
    /\ cls = c
    /\ _x = p[1]
    /\ _y = p[2]
    /\ _alpha = Polar[p].alpha
    /\ _d = Polar[p].d
    /\ _noise = None
    /\ _x_error = None
    /\ _y_error = None
    /\ ret = Ok("__init__", NoArgs, <<>>, <<>>)
    /\ drew = FALSE
    /\ lastXY = p
    /\ stable = NoStable

Next ==
  \/ \E c \in Classes, p \in Offsets : Construct(c, p[1], p[2])
  \/ \E p \in Offsets : Move(p[1], p[2])
  \/ Coords
  \/ \E theta \in Thetas : CallR(theta)
  \/ \E n \in Counts : Misalignment(n)
  \/ \E n \in Counts : Boundary(n)
  \/ \E n \in Counts, noise \in Levels, new_errors \in BOOLEAN :
       NoisyBoundary(n, noise, new_errors)
  \/ \E n \in Counts, noise \in Levels : NoisyMisalignment(n, noise)

Spec == Init /\ [][Next]_vars

---------------------------------------------------------------------------
(* Claims *)

IsNoisyBoundaryStep == cls = "Noisy_Ring" /\ cls' = "Noisy_Ring" /\ ret'.op = "boundary"
CacheUnchanged == UNCHANGED <<_noise, _x_error, _y_error>>

\* the condition of the cache policy, on the cache before the call and the
\* arguments of the call
PolicySaysDraw ==
  \/ ret'.args.force
  \/ ~_x_error.set
  \/ Len(_x_error.v[1]) # ret'.args.n
  \/ _noise # [set |-> TRUE, v |-> <<ret'.args.noise>>]

\* C1 as claimed: every Noisy_Ring.boundary call draws fresh perturbations
\* exactly when new_errors is set, or nothing is cached, or the cached length
\* differs from n, or the cached level differs from noise; otherwise the
\* cache is left unchanged.
C1_EveryCall ==
  [][IsNoisyBoundaryStep =>
       /\ drew' <=> PolicySaysDraw
       /\ ~drew' => CacheUnchanged]_vars

\* C1 amended: the cache policy holds for every Noisy_Ring.boundary call
\* with n >= 0 (and noise >= 0): such a call draws fresh perturbations exactly
\* when the policy's condition holds, and otherwise leaves the cache unchanged.
C1_CachePolicy ==
  [][(IsNoisyBoundaryStep /\ ret'.args.n >= 0) =>
       /\ drew' <=> PolicySaysDraw
       /\ ~drew' => CacheUnchanged]_vars

\* C1 witness: a boundary call was served from the cache
C1_Witness ==
  /\ cls = "Noisy_Ring"
  /\ ret.op = "boundary"
  /\ ret.status = "ok"
  /\ ret.args.n = NumSamples
  /\ ~drew
  /\ _x_error.set

\* C2 as claimed: for every n > 0, boundary returns successfully two
\* sequences of exactly n elements each.
C2_BoundaryHasNPoints ==
  (ret.op = "boundary" /\ ret.args.n > 0) =>
    /\ ret.status = "ok"
    /\ Len(ret.a) = ret.args.n
    /\ Len(ret.b) = ret.args.n

\* C3 as claimed: for every n > 0, misalignment of a Point or Ring returns n
\* angles and n distances, the angles starting at 0, spaced 2*pi/n apart and
\* all below 2*pi, the i-th distance being _r of the i-th angle.
C3_ProfileGrid ==
  (cls \in {"Point", "Ring"} /\ ret.op = "misalignment" /\ ret.status = "ok"
     /\ ret.args.n > 0) =>
    /\ Len(ret.a) = ret.args.n
    /\ Len(ret.b) = ret.args.n
    /\ ret.b[1] = 0
    /\ \A k \in 1 .. Len(ret.b) - 1 :
         ret.args.n * (ret.b[k + 1] - ret.b[k]) = Turn
    /\ \A k \in 1 .. Len(ret.b) : ret.b[k] >= 0 /\ ret.b[k] < Turn
    /\ \A k \in 1 .. Len(ret.b) : ret.a[k] = RValue(cls, ret.b[k])

\* C4 as claimed: for every n > 0, Noisy_Ring.misalignment completes without
\* an error and returns n radii, the i-th being the distance of the i-th noisy
\* boundary point from the origin.
C4_NoisyProfile ==
  (cls = "Noisy_Ring" /\ ret.op = "misalignment" /\ ret.args.n > 0) =>
    /\ ret.status = "ok"
    /\ Len(ret.a) = ret.args.n
    /\ \A k \in 1 .. Len(ret.a) :
         LET px == ExactX[k] + _x_error.v[1][k]
             py == ExactY[k] + _y_error.v[1][k]
         IN  ret.a[k] = Sqrt(px * px + py * py)

C7_ClosedFormAsClaimed ==
  (cls = "Point" /\ <<_x, _y>> = <<Unit \div 2, 0>> /\ ret.op = "_r") =>
    /\ ret.status = "ok"
    /\ ret.args.theta = 0 => ret.a[1] = 3 * (Unit \div 2)
    /\ ret.args.theta = Pi => ret.a[1] = Unit \div 2

\* C7 amended: for the offset (0.5, 0), Point._r (chi = alpha + pi - theta)
\* gives _r(0) = 0.5 and _r(pi) = 1.5; Ring._r (cosine of theta - alpha)
\* gives _r(0) = 1.5 and _r(pi) = 0.5.
C7_ClosedForm ==
  (<<_x, _y>> = <<Unit \div 2, 0>> /\ ret.op = "_r") =>
    /\ ret.status = "ok"
    /\ (cls = "Point" /\ ret.args.theta = 0) => ret.a[1] = Unit \div 2
    /\ (cls = "Point" /\ ret.args.theta = Pi) => ret.a[1] = 3 * (Unit \div 2)
    /\ (cls # "Point" /\ ret.args.theta = 0) => ret.a[1] = 3 * (Unit \div 2)
    /\ (cls # "Point" /\ ret.args.theta = Pi) => ret.a[1] = Unit \div 2

\* C7 witness: Point(0.5, 0)._r(0) returned
C7_Witness ==
  /\ cls = "Point"
  /\ <<_x, _y>> = <<Unit \div 2, 0>>
  /\ ret.op = "_r"
  /\ ret.args.theta = 0
  /\ ret.status = "ok"

\* C9: after any sequence of __init__ and move, (x, y) is the offset of the
\* most recent one, d = sqrt(x^2 + y^2) and alpha = atan2(y, x) of that
\* offset, and coords / centre returns exactly (x, y).
C9_PolarMatchesOffset ==
  /\ <<_x, _y>> = lastXY
  /\ _d * _d <= _x * _x + _y * _y
  /\ (_d + 1) * (_d + 1) > _x * _x + _y * _y
  /\ _alpha = Arctan2(lastXY[2], lastXY[1])
  /\ ret.op = "coords" => (ret.a = <<lastXY[1]>> /\ ret.b = <<lastXY[2]>>)

\* C9 witness: the object was moved to an offset off the axes
C9_Witness ==
  /\ ret.op = "move"
  /\ lastXY = <<-3 * (Unit \div 10), 4 * (Unit \div 10)>>
  /\ _d = Unit \div 2

\* C10: move leaves the noise cache unchanged, and a boundary(n, noise)
\* call that follows a successful boundary(n, noise) and only moves, with the
\* same n and noise and no forced refresh, draws nothing and returns the same
\* geometry about the new centre.
C10_MoveKeepsNoise ==
  [][/\ ret'.op = "move" => CacheUnchanged
     /\ (/\ IsNoisyBoundaryStep
         /\ stable.valid
         /\ stable.n = ret'.args.n
         /\ stable.noise = ret'.args.noise
         /\ ~ret'.args.force) =>
          /\ ~drew'
          /\ CacheUnchanged
          /\ ret'.status = "ok"
          /\ ret'.a = [k \in 1 .. Len(stable.a) |-> _x + stable.a[k]]
          /\ ret'.b = [k \in 1 .. Len(stable.b) |-> _y + stable.b[k]]]_vars

\* C10 witness: boundary, move, boundary with the same n and noise
C10_Witness ==
  /\ cls = "Noisy_Ring"
  /\ ret.op = "boundary"
  /\ ret.status = "ok"
  /\ ~drew
  /\ stable.valid
  /\ stable.moved
  /\ stable.n = ret.args.n
  /\ stable.noise = ret.args.noise
  /\ stable.noise > 0

====
